---------------------------- MODULE Spec2Model ----------------------------
(***************************************************************************)
(* camera-watchdog.py: a cron-launched watchdog.  Every invocation takes a *)
(* non-blocking flock, consults the throttle file, probes the endpoint up  *)
(* to MAX_RETRIES times (restarting the service and sleeping between       *)
(* probes), and persists a status document and the throttle state through  *)
(* write_json_atomic (write PATH.tmp, fsync, os.replace).                  *)
(*                                                                         *)
(* The file system is modelled with inodes: a directory maps the four      *)
(* paths to inodes, an inode holds a sequence of written chunks, and an    *)
(* open file object keeps its inode and offset whatever the directory does *)
(* afterwards.  A document's `updated_at` stamp is modelled by the         *)
(* identity of the invocation that serialised it (field `by`).             *)
(***************************************************************************)
EXTENDS Integers, Sequences, FiniteSets, TLC

\* ------------------------------------------------------------ configuration
MAX_RETRIES == 5
BASE_WAIT_SECONDS == 30
WAIT_INCREMENT_SECONDS == 30
RUN_EVERY_N_AFTER_FAILURE == 10

\* http_get_status: the status of a healthy answer, of an HTTPError answer,
\* and the None returned when no answer arrived.
HTTP_OK == 200
HTTP_ERR == 500
NoStatus == -1

STATUS_FILE == "status"
THROTTLE_FILE == "throttle"

\* ------------------------------------------------------------------ bounds
\* number of write() calls one document takes to reach the file
NChunks == 2
\* size of the inode table
MaxInodes == 6
\* launches stop once the persisted counter has reached this value
MaxCounter == 21
\* largest persisted counter an initial state of Spec may hold
MaxInitCounter == 20

Procs == {1, 2}
Inodes == 1..MaxInodes
\* dir[path] of a path that does not exist
NoInode == 0

VARIABLES
    pc,              \* where each invocation stands in main()
    lock_fd,         \* main's lock_fd: TRUE when it holds the flock'ed descriptor
    flock,           \* kernel side: the processes holding LOCK_EX on LOCK_FILE
    skip,            \* main's skip
    throttle_state,  \* main's throttle_state (a dict)
    read_state,      \* the dict read_json(THROTTLE_FILE) returned (history)
    attempts,        \* main's attempts
    wait,            \* main's wait
    succeeded,       \* main's succeeded
    restart_errors,  \* main's restart_errors
    i,               \* main's loop variable
    wr,              \* the frame of write_json_atomic, when inside it
    exit_status,     \* the process exit status, once exited
    events,          \* what the invocation has done so far (history)
    window,          \* gate outcomes of the latest invocations of a streak (history)
    dir,             \* directory: path -> inode
    inode            \* inode -> content (sequence of chunks)

locals == <<skip, throttle_state, read_state, attempts, wait, succeeded,
            restart_errors, i>>
fs == <<dir, inode>>
vars == <<pc, lock_fd, flock, skip, throttle_state, read_state, attempts, wait,
          succeeded, restart_errors, i, wr, exit_status, events, window, dir, inode>>

\* ------------------------------------------------------------------- dicts
EmptyDict == [k \in {} |-> 0]
Put(m, k, v) == [y \in DOMAIN m \cup {k} |-> IF y = k THEN v ELSE m[y]]
Get(m, k, dflt) == IF k \in DOMAIN m THEN m[k] ELSE dflt

\* ------------------------------------------------------------- file system
Paths == {STATUS_FILE, THROTTLE_FILE, "status.tmp", "throttle.tmp"}
\* write_json_atomic's tmp_path
TmpPathInPlace(path) == path
TmpPath(path) == path \o ".tmp"

\* the frame of a write_json_atomic call: its arguments, where it returns to,
\* the open file object (inode, offset), and what the target path held when
\* the call began (history)
NoFile == [exists |-> FALSE, content |-> <<>>]
NoFrame == [path |-> "", data |-> EmptyDict, ret |-> "", ino |-> NoInode, pos |-> 0,
            old |-> NoFile]

\* the k-th piece of the serialisation of `data` made by invocation `by`
Chunk(by, data, k) == [by |-> by, data |-> data, part |-> k]
Hole == [by |-> -1, data |-> EmptyDict, part |-> 0]
Serialize(by, data) == [k \in 1..NChunks |-> Chunk(by, data, k)]

\* content after a write() of one chunk at offset pos (a sparse file gets
\* zero bytes between its end and pos)
WriteAt(content, pos, chunk) ==
    [k \in 1..(IF pos + 1 > Len(content) THEN pos + 1 ELSE Len(content)) |->
        IF k = pos + 1 THEN chunk
        ELSE IF k <= Len(content) THEN content[k]
        ELSE Hole]

\* what open(path).read() gives
ReadFile(path) ==
    IF dir[path] = NoInode THEN NoFile
    ELSE [exists |-> TRUE, content |-> inode[dir[path]]]

\* json.load succeeds on exactly one whole serialisation
IsDocument(content) ==
    /\ Len(content) = NChunks
    /\ \A k \in 1..NChunks :
          /\ content[k].part = k
          /\ content[k].by = content[1].by
          /\ content[k].data = content[1].data

\* a reader that uses whatever the file starts with
read_jsonPrefix(path) ==
    LET f == ReadFile(path) IN
    IF f.exists /\ Len(f.content) > 0 THEN f.content[1].data ELSE EmptyDict
\* json.load's result, or {} when open, read or json.load raised
read_json(path) ==
    LET f == ReadFile(path) IN
    IF f.exists /\ IsDocument(f.content) THEN f.content[1].data ELSE EmptyDict

\* which branch read_json takes on path: 0 the document parses, 1 open()
\* raises (no such file), 2 the file is there and json.load (or the read)
\* raises
ReadKind(path) ==
    IF ~ReadFile(path).exists THEN 1
    ELSE IF IsDocument(ReadFile(path).content) THEN 0 ELSE 2

\* inodes named by the directory or by an open file object
InUse(d, frames) ==
    {d[x] : x \in Paths} \cup {frames[q].ino : q \in Procs}
FreshInode ==
    CHOOSE n \in Inodes : /\ n \notin InUse(dir, wr)
                          /\ \A m \in Inodes : m \notin InUse(dir, wr) => n <= m
\* unreferenced inodes are freed
Collect(ino, d, frames) ==
    [n \in Inodes |-> IF n \in InUse(d, frames) THEN ino[n] ELSE <<>>]


\* --------------------------------------------------------- throttle policy
should_throttleInverted(state) ==
    IF ~Get(state, "last_failed", FALSE)
    THEN [skip |-> FALSE, state |-> Put(state, "counter", 0)]
    ELSE LET counter == Get(state, "counter", 0) + 1 IN
         [skip |-> counter % RUN_EVERY_N_AFTER_FAILURE = 0,
          state |-> Put(state, "counter", counter)]
\* a gate that does not store the counter it incremented
should_throttleNoCount(state) ==
    IF ~Get(state, "last_failed", FALSE)
    THEN [skip |-> FALSE, state |-> Put(state, "counter", 0)]
    ELSE LET counter == Get(state, "counter", 0) + 1 IN
         [skip |-> counter % RUN_EVERY_N_AFTER_FAILURE # 0, state |-> state]
should_throttle(state) ==
    IF ~Get(state, "last_failed", FALSE)
    THEN [skip |-> FALSE, state |-> Put(state, "counter", 0)]
    ELSE LET counter == Get(state, "counter", 0) + 1 IN
         [skip |-> counter % RUN_EVERY_N_AFTER_FAILURE # 0,
          state |-> Put(state, "counter", counter)]

\* the dict update_throttle_state hands to write_json_atomic
update_throttle_stateNoReset(state, last_failed) ==
    Put(state, "last_failed", last_failed)
update_throttle_state(state, last_failed) ==
    LET s1 == Put(state, "last_failed", last_failed) IN
    IF ~last_failed THEN Put(s1, "counter", 0) ELSE s1

\* the payload write_status hands to write_json_atomic after the loop
StatusPayload(ok, att, errs) ==
    [succeeded |-> ok, attempts |-> att, restart_errors |-> errs,
     skipped_due_to_throttle |-> FALSE]
\* ... and on the throttled path
SkipPayload == [succeeded |-> FALSE, skipped_due_to_throttle |-> TRUE]

\* restart_service: systemctl exits 0, exits non-zero, or cannot be run
RestartOutcomes == {"ok", "failed", "exception"}
restart_service(outcome) ==
    [ok |-> outcome = "ok",
     msg |-> IF outcome = "ok" THEN "ok"
             ELSE IF outcome = "failed" THEN "systemctl failed rc=1"
             ELSE "systemctl exception"]

\* the record the loop appends for attempt n
AttemptRecordZeroBased(n, code) == [try |-> n - 1, http_status |-> code]
AttemptRecord(n, code) == [try |-> n, http_status |-> code]
\* ... and the fields it sets on it after the restart
WithRestart(rec, r) ==
    [try |-> rec.try, http_status |-> rec.http_status,
     restart_called |-> TRUE, restart_ok |-> r.ok, restart_msg |-> r.msg]
\* `if not ok: restart_errors.append(msg)`
RecordRestartErrorAlways(errs, r) == Append(errs, r.msg)
RecordRestartError(errs, r) == IF r.ok THEN errs ELSE Append(errs, r.msg)

\* ------------------------------------------------------- the retry loop
\* `if code == 200: succeeded = True; break`, else the restart
NextAfterProbeNoBreak(code) == "restart"
NextAfterProbeReachableOnly(code) ==
    IF code = HTTP_OK THEN "status"
    ELSE IF code = NoStatus THEN "sleep" ELSE "restart"
NextAfterProbeSkipsStatus(code) == IF code = HTTP_OK THEN "update" ELSE "restart"
NextAfterProbe(code) == IF code = HTTP_OK THEN "status" ELSE "restart"

\* a loop that sleeps after every restart, the last one too
NextAfterRestartAlwaysSleep(n) == "sleep"
\* `if i < MAX_RETRIES:` sleep and go round again, else the loop is over
NextAfterRestart(n) == IF n < MAX_RETRIES THEN "sleep" ELSE "status"

\* `wait += WAIT_INCREMENT_SECONDS`
NextWaitDoubling(w) == w + w
NextWait(w) == w + WAIT_INCREMENT_SECONDS

\* ------------------------------------------------------------ the lock
\* flock(LOCK_EX | LOCK_NB) succeeds iff no other open file description
\* holds the lock
LockFreeAny(p) == TRUE
LockFree(p) == flock \ {p} = {}

\* ------------------------------------------------------------ helpers
Event(e, v) == [e |-> e, v |-> v]
Log(p, e, v) == events' = [events EXCEPT ![p] = Append(@, Event(e, v))]

\* the process ends: its descriptors are closed, which drops its flock
ProcessExit(p, status) ==
    /\ pc' = [pc EXCEPT ![p] = "exited"]
    /\ exit_status' = [exit_status EXCEPT ![p] = status]
    /\ flock' = flock \ {p}

\* the last RUN_EVERY_N_AFTER_FAILURE gate outcomes of the running streak
Slide(w, x) ==
    LET a == Append(w, x) IN
    IF Len(a) > RUN_EVERY_N_AFTER_FAILURE THEN Tail(a) ELSE a

\* open(tmp_path, "w") inside write_json_atomic(path, data), returning to ret
OpenTmp(p, path, data, ret) ==
    LET tmp == TmpPath(path)
        n == IF dir[tmp] = NoInode THEN FreshInode ELSE dir[tmp] IN
    /\ dir' = [dir EXCEPT ![tmp] = n]
    /\ inode' = [inode EXCEPT ![n] = <<>>]
    /\ wr' = [wr EXCEPT ![p] = [path |-> path, data |-> data, ret |-> ret,
                                ino |-> n, pos |-> 0, old |-> ReadFile(path)]]
    /\ pc' = [pc EXCEPT ![p] = "w_write"]

\* ------------------------------------------------------------------ Init
LocalsInit ==
    /\ pc = [p \in Procs |-> "idle"]
    /\ lock_fd = [p \in Procs |-> FALSE]
    /\ flock = {}
    /\ skip = [p \in Procs |-> FALSE]
    /\ throttle_state = [p \in Procs |-> EmptyDict]
    /\ read_state = [p \in Procs |-> EmptyDict]
    /\ attempts = [p \in Procs |-> <<>>]
    /\ wait = [p \in Procs |-> 0]
    /\ succeeded = [p \in Procs |-> FALSE]
    /\ restart_errors = [p \in Procs |-> <<>>]
    /\ i = [p \in Procs |-> 0]
    /\ wr = [p \in Procs |-> NoFrame]
    /\ exit_status = [p \in Procs |-> -1]
    /\ events = [p \in Procs |-> <<>>]
    /\ window = <<>>

\* first launch on a machine: no state file exists
FreshFiles ==
    /\ dir = [x \in Paths |-> NoInode]
    /\ inode = [n \in Inodes |-> <<>>]

\* the files an earlier invocation (numbered 0) left behind, given the
\* throttle dict it persisted: a throttled run leaves the skip status, a run
\* of the loop leaves its outcome
PriorStatus(ts) ==
    IF ~ts.last_failed
    THEN StatusPayload(TRUE, <<AttemptRecord(1, HTTP_OK)>>, <<>>)
    ELSE IF ts.counter % RUN_EVERY_N_AFTER_FAILURE # 0
    THEN SkipPayload
    ELSE StatusPayload(FALSE,
            [k \in 1..MAX_RETRIES |->
                WithRestart(AttemptRecord(k, HTTP_ERR), restart_service("ok"))],
            <<>>)
LeftFiles(ts) ==
    /\ dir = [x \in Paths |-> IF x = STATUS_FILE THEN 1
                              ELSE IF x = THROTTLE_FILE THEN 2 ELSE NoInode]
    /\ inode = [n \in Inodes |-> IF n = 1 THEN Serialize(0, PriorStatus(ts))
                                 ELSE IF n = 2 THEN Serialize(0, ts)
                                 ELSE <<>>]
\* every throttle dict the program can have persisted
WrittenThrottle ==
    {[last_failed |-> FALSE, counter |-> 0]}
    \cup {[last_failed |-> TRUE, counter |-> c] : c \in 0..MaxInitCounter}

Init ==
    /\ LocalsInit
    /\ \/ FreshFiles
       \/ \E ts \in WrittenThrottle : LeftFiles(ts)

\* ---------------------------------------------------------------- actions
\* cron starts the program
Launch(p) ==
    /\ pc[p] = "idle"
    /\ pc' = [pc EXCEPT ![p] = "lock"]
    /\ UNCHANGED <<lock_fd, flock, locals, wr, exit_status, events, window, fs>>

\* cron starts the program again after the previous invocation has exited
Relaunch(p) ==
    /\ pc[p] = "exited"
    /\ Get(read_json(THROTTLE_FILE), "counter", 0) < MaxCounter
    /\ pc' = [pc EXCEPT ![p] = "lock"]
    /\ lock_fd' = [lock_fd EXCEPT ![p] = FALSE]
    /\ skip' = [skip EXCEPT ![p] = FALSE]
    /\ throttle_state' = [throttle_state EXCEPT ![p] = EmptyDict]
    /\ read_state' = [read_state EXCEPT ![p] = EmptyDict]
    /\ attempts' = [attempts EXCEPT ![p] = <<>>]
    /\ wait' = [wait EXCEPT ![p] = 0]
    /\ succeeded' = [succeeded EXCEPT ![p] = FALSE]
    /\ restart_errors' = [restart_errors EXCEPT ![p] = <<>>]
    /\ i' = [i EXCEPT ![p] = 0]
    /\ exit_status' = [exit_status EXCEPT ![p] = -1]
    /\ events' = [events EXCEPT ![p] = <<>>]
    /\ wr' = [wr EXCEPT ![p] = NoFrame]
    /\ UNCHANGED <<flock, window, fs>>

\* os.open and flock both succeed
LockAcquire(p) ==
    /\ pc[p] = "lock"
    /\ LockFree(p)
    /\ flock' = flock \cup {p}
    /\ lock_fd' = [lock_fd EXCEPT ![p] = TRUE]
    /\ pc' = [pc EXCEPT ![p] = "throttle"]
    /\ UNCHANGED <<locals, wr, exit_status, events, window, fs>>

\* a contended invocation that goes on to the throttle check
LockContendedFallsThrough(p) ==
    /\ pc[p] = "lock"
    /\ ~LockFree(p)
    /\ pc' = [pc EXCEPT ![p] = "throttle"]
    /\ Log(p, "locked_out", 0)
    /\ UNCHANGED <<lock_fd, flock, locals, wr, exit_status, window, fs>>

\* flock raises BlockingIOError: return 0
LockContended(p) ==
    /\ pc[p] = "lock"
    /\ ~LockFree(p)
    /\ ProcessExit(p, 0)
    /\ Log(p, "locked_out", 0)
    /\ UNCHANGED <<lock_fd, locals, wr, window, fs>>

\* os.open or flock raises anything else: lock_fd = None, carry on
LockError(p) ==
    /\ pc[p] = "lock"
    /\ lock_fd' = [lock_fd EXCEPT ![p] = FALSE]
    /\ pc' = [pc EXCEPT ![p] = "throttle"]
    /\ UNCHANGED <<flock, locals, wr, exit_status, events, window, fs>>

\* skip, throttle_state = should_throttle(), and the loop's initialisation
ShouldThrottle(p) ==
    /\ pc[p] = "throttle"
    /\ LET state == read_json(THROTTLE_FILE)
           r == should_throttle(state) IN
       /\ read_state' = [read_state EXCEPT ![p] = state]
       /\ skip' = [skip EXCEPT ![p] = r.skip]
       /\ throttle_state' = [throttle_state EXCEPT ![p] = r.state]
       /\ pc' = [pc EXCEPT ![p] = IF r.skip THEN "skip_update" ELSE "probe"]
       /\ wait' = [wait EXCEPT ![p] = IF r.skip THEN @ ELSE BASE_WAIT_SECONDS]
       /\ i' = [i EXCEPT ![p] = IF r.skip THEN @ ELSE 1]
    /\ Log(p, "read_throttle", ReadKind(THROTTLE_FILE))
    /\ UNCHANGED <<lock_fd, flock, attempts, succeeded, restart_errors, wr,
                   exit_status, window, fs>>

\* http_get_status returns `code`; the record is appended; 200 breaks the loop
Probe(p, code) ==
    /\ pc[p] = "probe"
    /\ attempts' = [attempts EXCEPT ![p] = Append(@, AttemptRecord(i[p], code))]
    /\ succeeded' = [succeeded EXCEPT ![p] = (code = HTTP_OK)]
    /\ pc' = [pc EXCEPT ![p] = NextAfterProbe(code)]
    /\ Log(p, "probe", code)
    /\ UNCHANGED <<lock_fd, flock, skip, throttle_state, read_state, wait,
                   restart_errors, i, wr, exit_status, window, fs>>

\* restart_service returns (ok, msg); the loop ends after attempt MAX_RETRIES
Restart(p, outcome) ==
    /\ pc[p] = "restart"
    /\ LET n == Len(attempts[p])
           r == restart_service(outcome) IN
       /\ attempts' = [attempts EXCEPT ![p][n] = WithRestart(@, r)]
       /\ restart_errors' = [restart_errors EXCEPT ![p] = RecordRestartError(@, r)]
       /\ Log(p, "restart", IF r.ok THEN 1 ELSE 0)
    /\ pc' = [pc EXCEPT ![p] = NextAfterRestart(i[p])]
    /\ UNCHANGED <<lock_fd, flock, skip, throttle_state, read_state, wait,
                   succeeded, i, wr, exit_status, window, fs>>

\* time.sleep(wait); wait += WAIT_INCREMENT_SECONDS; next iteration
Sleep(p) ==
    /\ pc[p] = "sleep"
    /\ wait' = [wait EXCEPT ![p] = NextWait(@)]
    /\ i' = [i EXCEPT ![p] = @ + 1]
    /\ pc' = [pc EXCEPT ![p] = "probe"]
    /\ Log(p, "wait", wait[p])
    /\ UNCHANGED <<lock_fd, flock, skip, throttle_state, read_state, attempts,
                   succeeded, restart_errors, wr, exit_status, window, fs>>

\* write_status(...) up to the open of the temporary file
WriteStatus(p) ==
    /\ pc[p] \in {"status", "skip_status"}
    /\ IF pc[p] = "status"
       THEN OpenTmp(p, STATUS_FILE,
                    StatusPayload(succeeded[p], attempts[p], restart_errors[p]),
                    "update")
       ELSE OpenTmp(p, STATUS_FILE, SkipPayload, "skip_return")
    /\ UNCHANGED <<lock_fd, flock, locals, exit_status, events, window>>

\* a run that goes on without calling update_throttle_state
UpdateThrottleStateOmitted(p) ==
    /\ pc[p] \in {"update", "skip_update"}
    /\ pc' = [pc EXCEPT ![p] = IF pc[p] = "update" THEN "release" ELSE "skip_status"]
    /\ UNCHANGED <<lock_fd, flock, locals, wr, exit_status, events, window, fs>>

\* update_throttle_state(...) up to the open of the temporary file
UpdateThrottleState(p) ==
    /\ pc[p] \in {"update", "skip_update"}
    /\ LET last_failed == IF pc[p] = "update" THEN ~succeeded[p] ELSE TRUE
           state == update_throttle_state(throttle_state[p], last_failed) IN
       /\ throttle_state' = [throttle_state EXCEPT ![p] = state]
       /\ OpenTmp(p, THROTTLE_FILE, state,
                  IF pc[p] = "update" THEN "release" ELSE "skip_status")
    /\ UNCHANGED <<lock_fd, flock, skip, read_state, attempts, wait, succeeded,
                   restart_errors, i, exit_status, events, window>>

\* one write() of the serialisation; after the last one flush, fsync, close
WriteChunk(p) ==
    /\ pc[p] = "w_write"
    /\ LET f == wr[p]
           last == f.pos + 1 = NChunks
           frames == [wr EXCEPT ![p] = [f EXCEPT !.pos = f.pos + 1,
                                                 !.ino = IF last THEN NoInode ELSE @]]
           written == [inode EXCEPT ![f.ino] =
                          WriteAt(@, f.pos, Chunk(p, f.data, f.pos + 1))] IN
       /\ wr' = frames
       /\ inode' = Collect(written, dir, frames)
       /\ pc' = [pc EXCEPT ![p] = IF last THEN "w_replace" ELSE "w_write"]
    /\ UNCHANGED <<lock_fd, flock, locals, exit_status, events, window, dir>>

\* os.replace(tmp_path, path); FileNotFoundError is not caught anywhere, so
\* the interpreter prints the traceback and exits with status 1
Replace(p) ==
    /\ pc[p] = "w_replace"
    /\ LET f == wr[p]
           tmp == TmpPath(f.path)
           d == [dir EXCEPT ![f.path] = dir[tmp], ![tmp] = NoInode]
           frames == [wr EXCEPT ![p] = NoFrame] IN
       IF dir[tmp] # NoInode
       THEN /\ dir' = d
            /\ inode' = Collect(inode, d, frames)
            /\ wr' = frames
            /\ pc' = [pc EXCEPT ![p] = f.ret]
            /\ IF f.path = STATUS_FILE
               THEN Log(p, "write_status", IF f.data.succeeded THEN 1 ELSE 0)
               ELSE Log(p, "write_throttle", IF f.data.last_failed THEN 1 ELSE 0)
            /\ UNCHANGED <<flock, exit_status>>
       ELSE /\ ProcessExit(p, 1)
            /\ wr' = frames
            /\ Log(p, "traceback", 0)
            /\ UNCHANGED fs
    /\ UNCHANGED <<lock_fd, locals, window>>

\* the throttled path's return 0; the process exit drops the lock
SkipReturn(p) ==
    /\ pc[p] = "skip_return"
    /\ ProcessExit(p, 0)
    /\ window' = Slide(window, "skip")
    /\ UNCHANGED <<lock_fd, locals, wr, events, fs>>

\* os.close(lock_fd) and return 0 if succeeded else 1
Finish(p) ==
    /\ pc[p] = "release"
    /\ ProcessExit(p, IF succeeded[p] THEN 0 ELSE 1)
    /\ window' = IF succeeded[p] THEN <<>> ELSE Slide(window, "run")
    /\ UNCHANGED <<lock_fd, locals, wr, events, fs>>

\* the process is killed anywhere (SIGKILL: status 128 + 9); its open file
\* object goes, the frame it died in is kept as history
KILLED == 137
Crash(p) ==
    /\ pc[p] \notin {"idle", "exited"}
    /\ ProcessExit(p, KILLED)
    /\ LET frames == [wr EXCEPT ![p].ino = NoInode] IN
       /\ wr' = frames
       /\ inode' = Collect(inode, dir, frames)
    /\ Log(p, "killed", IF pc[p] \in {"w_write", "w_replace"} THEN 1 ELSE 0)
    /\ window' = <<>>
    /\ UNCHANGED <<lock_fd, locals, dir>>

\* ------------------------------------------------------- specifications
ProbeResults == {HTTP_OK, HTTP_ERR, NoStatus}

\* one invocation, started in any state earlier invocations can have left
Next ==
    \/ Launch(1)
    \/ LockAcquire(1)
    \/ ShouldThrottle(1)
    \/ \E code \in ProbeResults : Probe(1, code)
    \/ \E outcome \in RestartOutcomes : Restart(1, outcome)
    \/ Sleep(1)
    \/ WriteStatus(1)
    \/ UpdateThrottleState(1)
    \/ WriteChunk(1)
    \/ Replace(1)
    \/ SkipReturn(1)
    \/ Finish(1)

Spec == Init /\ [][Next]_vars

\* invocations run one after another, from the first launch on: cron starts
\* the next one after the previous one has exited
SeqProbeResults == {HTTP_OK, HTTP_ERR, NoStatus}
SeqRestartResults == {"ok"}
NextSeq ==
    \/ Launch(1)
    \/ Relaunch(1)
    \/ LockAcquire(1)
    \/ ShouldThrottle(1)
    \/ \E code \in SeqProbeResults : Probe(1, code)
    \/ \E outcome \in SeqRestartResults : Restart(1, outcome)
    \/ Sleep(1)
    \/ WriteStatus(1)
    \/ UpdateThrottleState(1)
    \/ WriteChunk(1)
    \/ Replace(1)
    \/ SkipReturn(1)
    \/ Finish(1)

InitSeq == LocalsInit /\ FreshFiles
SpecSeq == InitSeq /\ [][NextSeq]_vars

\* two invocations that cron (or an operator) starts at any time, each either
\* taking the lock, finding it taken, or failing to lock and carrying on
ConcProbeResults == {HTTP_OK, HTTP_ERR}
ConcRestartResults == {"ok"}
NextConc ==
    \E p \in Procs :
        \/ Launch(p)
        \/ LockAcquire(p)
        \/ LockContended(p)
        \/ LockError(p)
        \/ ShouldThrottle(p)
        \/ \E code \in ConcProbeResults : Probe(p, code)
        \/ \E outcome \in ConcRestartResults : Restart(p, outcome)
        \/ Sleep(p)
        \/ WriteStatus(p)
        \/ UpdateThrottleState(p)
        \/ WriteChunk(p)
        \/ Replace(p)
        \/ SkipReturn(p)
        \/ Finish(p)

SpecConc == Init /\ [][NextConc]_vars

\* one invocation that may be killed at any point, started in any state
\* earlier invocations can have left
NextCrash ==
    \/ Launch(1)
    \/ LockAcquire(1)
    \/ ShouldThrottle(1)
    \/ \E code \in ProbeResults : Probe(1, code)
    \/ \E outcome \in RestartOutcomes : Restart(1, outcome)
    \/ Sleep(1)
    \/ WriteStatus(1)
    \/ UpdateThrottleState(1)
    \/ WriteChunk(1)
    \/ Replace(1)
    \/ SkipReturn(1)
    \/ Finish(1)
    \/ Crash(1)

SpecCrash == Init /\ [][NextCrash]_vars

\* ------------------------------------------------ reading the event log
\* positions of the events of kind e in a log
At(ev, e) == {k \in 1..Len(ev) : ev[k].e = e}
\* the number of probes logged strictly before position k
ProbesBefore(ev, k) == Cardinality({m \in At(ev, "probe") : m < k})
\* the run is past its retry loop
LoopOver(p) == pc[p] \notin {"idle", "lock", "throttle", "probe", "restart", "sleep"}
LoopEvents == {"probe", "restart", "wait"}

\* C1: a run performs at most MAX_RETRIES probes, and nothing of the loop
\* (probe, restart, wait) follows a probe that returned 200; what follows is
\* the persisting of the outcome.
C1_AtMostMaxProbesStopOnSuccess ==
    \A p \in Procs :
        LET ev == events[p] IN
        /\ Cardinality(At(ev, "probe")) <= MAX_RETRIES
        /\ \A k \in At(ev, "probe") :
              ev[k].v = HTTP_OK =>
                 /\ \A m \in (k + 1)..Len(ev) : ev[m].e \notin LoopEvents
                 /\ pc[p] \notin {"probe", "restart", "sleep"}

\* a run that failed twice, then got 200 on the third probe, has persisted
\* its outcome and exited
C1_Witness ==
    \E p \in Procs :
        /\ pc[p] = "exited"
        /\ Cardinality(At(events[p], "probe")) = 3
        /\ At(events[p], "write_status") # {}
        /\ At(events[p], "write_throttle") # {}
        /\ succeeded[p]

\* C2: every probe that did not return 200 (a status code or none at all,
\* the last attempt included) is followed at once by exactly one restart, a
\* restart only ever follows such a probe, and so a run makes as many
\* restarts as it has non-200 probes, none after a 200.
C2_RestartAfterEveryFailedProbe ==
    \A p \in Procs :
        LET ev == events[p]
            failed == {k \in At(ev, "probe") : ev[k].v # HTTP_OK} IN
        /\ \A k \in failed :
              IF k = Len(ev) THEN pc[p] = "restart"
              ELSE /\ ev[k + 1].e = "restart"
                   /\ k + 2 <= Len(ev) => ev[k + 2].e # "restart"
        /\ \A k \in At(ev, "restart") : k - 1 \in failed
        /\ pc[p] # "restart" => Cardinality(At(ev, "restart")) = Cardinality(failed)

\* an exhausted run whose probes included a connection-level failure made
\* MAX_RETRIES restarts
C2_Witness ==
    \E p \in Procs :
        /\ pc[p] = "exited"
        /\ Cardinality(At(events[p], "restart")) = MAX_RETRIES
        /\ \E k \in At(events[p], "probe") : events[p][k].v = NoStatus
        /\ events[p][Len(events[p]) - 2] = Event("restart", 1)

Persisted == read_json(THROTTLE_FILE)
LastFailed(t) == Get(t, "last_failed", FALSE)
Counter(t) == Get(t, "counter", 0)

\* C4: during a failure streak every RUN_EVERY_N_AFTER_FAILURE (10)
\* consecutive invocations hold exactly one that went past the throttle gate
\* and 9 that were skipped, and an invocation that was skipped has persisted
\* last_failed = true with the counter it read plus one.
C4_OneInTenDuringStreak ==
    /\ Len(window) = RUN_EVERY_N_AFTER_FAILURE =>
          /\ Cardinality({k \in 1..Len(window) : window[k] = "run"}) = 1
          /\ Cardinality({k \in 1..Len(window) : window[k] = "skip"})
                = RUN_EVERY_N_AFTER_FAILURE - 1
    /\ \A p \in Procs :
          (pc[p] \in {"skip_status", "skip_return"} \/ (pc[p] = "exited" /\ skip[p])) =>
             /\ LastFailed(read_state[p])
             /\ LastFailed(Persisted)
             /\ Counter(Persisted) = Counter(read_state[p]) + 1

\* the streak's second window of ten: nine skips, then the run of counter 20
C4_Witness ==
    /\ Len(window) = RUN_EVERY_N_AFTER_FAILURE
    /\ window[RUN_EVERY_N_AFTER_FAILURE] = "run"
    /\ window[1] = "skip"
    /\ Counter(Persisted) = 2 * RUN_EVERY_N_AFTER_FAILURE
    /\ \E p \in Procs : pc[p] = "exited" /\ ~skip[p]

\* C5: in every persisted throttle state last_failed = false comes with
\* counter = 0; and every step that changes the persisted state is made by an
\* invocation that either persists last_failed = false with counter 0, or
\* read last_failed = true and persists last_failed = true with the counter
\* it read plus one, or read last_failed = false and persists the counter 0.
C5_StateOk == ~LastFailed(Persisted) => Counter(Persisted) = 0
C5_StepOk ==
    Persisted' # Persisted =>
       \E p \in Procs :
          /\ pc[p] = "w_replace" /\ wr[p].path = THROTTLE_FILE
          /\ Persisted' = wr[p].data
          /\ \/ ~LastFailed(Persisted') /\ Counter(Persisted') = 0
             \/ /\ LastFailed(Persisted') /\ LastFailed(read_state[p])
                /\ Counter(Persisted') = Counter(read_state[p]) + 1
             \/ /\ LastFailed(Persisted') /\ ~LastFailed(read_state[p])
                /\ Counter(Persisted') = 0
                /\ Counter(read_state[p]) = 0
C5_CounterDiscipline == [](C5_StateOk) /\ [][C5_StepOk]_vars

\* the tenth invocation after a failure went past the gate, succeeded and
\* persisted last_failed = false, counter = 0
C5_Witness ==
    \E p \in Procs :
        /\ pc[p] = "exited"
        /\ Counter(read_state[p]) = RUN_EVERY_N_AFTER_FAILURE - 1
        /\ LastFailed(read_state[p])
        /\ Persisted = [last_failed |-> FALSE, counter |-> 0]

\* ------------------------------------------------------ lock and files
Running(p) == pc[p] \notin {"idle", "exited"}
LockedOut(p) == At(events[p], "locked_out") # {}
Faulted(p) == At(events[p], "traceback") # {}

\* C6: never do two invocations hold the lock; an invocation that tries the
\* lock while another holds it is not made to wait (its contended return is
\* enabled), and one that was locked out has exited with status 0 having
\* read, probed, restarted and written nothing.
C6_LockExcludesAndNeverBlocks ==
    /\ Cardinality(flock) <= 1
    /\ \A p \in Procs :
          /\ (Running(p) /\ lock_fd[p]) => flock = {p}
          /\ (pc[p] = "lock" /\ flock \ {p} # {}) => ENABLED LockContended(p)
          /\ LockedOut(p) =>
                /\ pc[p] = "exited"
                /\ exit_status[p] = 0
                /\ events[p] = <<Event("locked_out", 0)>>
                /\ ~lock_fd[p]

\* one invocation is inside its retry loop holding the lock while the other
\* has been locked out
C6_Witness ==
    \E p, q \in Procs :
        /\ flock = {p}
        /\ pc[p] = "sleep"
        /\ LockedOut(q)
        /\ exit_status[q] = 0

\* C7 (as claimed): whatever a reader finds at the status path or at the
\* throttle path is one whole document.
C7_ReaderNeverSeesTornData ==
    \A path \in {STATUS_FILE, THROTTLE_FILE} :
        ReadFile(path).exists => IsDocument(ReadFile(path).content)

\* C8: while a writer is inside write_json_atomic the target path holds what
\* it held when the call began, and after the writer was killed inside the
\* call the target holds that previous content or the whole new document:
\* in both cases absent or one whole document, never a part of one.
C8_CrashLeavesOldOrNew ==
    \A p \in Procs :
        LET f == wr[p]
            target == ReadFile(f.path)
            new == [exists |-> TRUE, content |-> Serialize(p, f.data)] IN
        /\ pc[p] \in {"w_write", "w_replace"} => target = f.old
        /\ (pc[p] = "exited" /\ exit_status[p] = KILLED /\ f.path # "") =>
              /\ target \in {f.old, new}
              /\ target.exists => IsDocument(target.content)

\* the writer was killed after the first write() to the temporary file: the
\* temporary file holds half a document, the target the earlier document
C8_Witness ==
    \E p \in Procs :
        /\ pc[p] = "exited" /\ exit_status[p] = KILLED
        /\ wr[p].path = STATUS_FILE /\ wr[p].pos = 1
        /\ Len(ReadFile(TmpPath(STATUS_FILE)).content) = 1
        /\ ReadFile(STATUS_FILE).exists
        /\ ReadFile(STATUS_FILE).content = wr[p].old.content

\* C9 (as claimed): an invocation exits with 0 if a probe returned 200, if it
\* was skipped by the throttle or if it was locked out, and with 1 exactly
\* when it made MAX_RETRIES probes none of which returned 200; with no other
\* status.
C9_ExitStatus ==
    \A p \in Procs :
        pc[p] = "exited" =>
           LET ev == events[p]
               ok200 == \E k \in At(ev, "probe") : ev[k].v = HTTP_OK
               exhausted == Cardinality(At(ev, "probe")) = MAX_RETRIES /\ ~ok200 IN
           /\ exit_status[p] \in {0, 1}
           /\ (ok200 \/ skip[p] \/ LockedOut(p)) => exit_status[p] = 0
           /\ exit_status[p] = 1 <=> exhausted

\* C10 (as claimed): an invocation in which a step raised ends with a
\* non-zero status and has persisted a RunOutcome with succeeded = false.
C10_FaultBecomesFailedOutcome ==
    \A p \in Procs :
        (pc[p] = "exited" /\ Faulted(p)) =>
           /\ exit_status[p] # 0
           /\ Event("write_status", 0) \in {events[p][k] : k \in 1..Len(events[p])}

\* ------------------------------------------------- degraded locking
\* the invocation went on without the lock after a locking error
Unlocked(p) == pc[p] \notin {"idle", "lock"} /\ ~lock_fd[p] /\ ~LockedOut(p)
Wrote(p, e) == At(events[p], e) # {}

\* C11 (as claimed): an invocation whose locking failed for another reason
\* than contention goes on to the throttle check and the loop, and ends as
\* the throttle state and the probe results alone decide: skipped or with a
\* 200 it has persisted its status and the throttle state and exits 0, with
\* MAX_RETRIES probes and no 200 it has persisted both and exits 1.
C11_LockErrorNotFatal ==
    \A p \in Procs :
        Unlocked(p) =>
           LET ev == events[p]
               ok200 == \E k \in At(ev, "probe") : ev[k].v = HTTP_OK IN
           /\ pc[p] # "throttle" => ev[1].e = "read_throttle"
           /\ pc[p] = "exited" =>
                 /\ skip[p] = should_throttle(read_state[p]).skip
                 /\ exit_status[p] = IF skip[p] \/ ok200 THEN 0 ELSE 1
                 /\ Wrote(p, "write_status")
                 /\ Wrote(p, "write_throttle")

\* ------------------------------------------- the throttle state's cycle
Count(p, e) == Cardinality(At(events[p], e))
\* every probe, restart and wait of p is logged before position w
AfterLoop(p, w) == \A k \in 1..Len(events[p]) : events[p][k].e \in LoopEvents => k < w

C13_SkippedRunKeepsFailing ==
    \A p \in Procs :
        skip[p] =>
           /\ \A k \in 1..Len(events[p]) : events[p][k].e \notin LoopEvents
           /\ Event("write_throttle", 0) \notin {events[p][k] : k \in 1..Len(events[p])}
           /\ Wrote(p, "write_throttle") =>
                 throttle_state[p] = [last_failed |-> TRUE,
                                      counter |-> Counter(read_state[p]) + 1]
           /\ pc[p] = "exited" =>
                 /\ events[p] = <<Event("read_throttle", 0), Event("write_throttle", 1),
                                  Event("write_status", 0)>>
                 /\ exit_status[p] = 0

\* ------------------------------------------------------ failed restarts
\* the messages of the failed restarts recorded in attempts, in attempt order
RECURSIVE FailedMsgs(_)
FailedMsgs(att) ==
    IF att = <<>> THEN <<>>
    ELSE LET rec == att[Len(att)]
             before == FailedMsgs(SubSeq(att, 1, Len(att) - 1)) IN
         IF "restart_ok" \in DOMAIN rec /\ ~rec.restart_ok
         THEN Append(before, rec.restart_msg)
         ELSE before

\* C14: a restart that fails is followed by what follows one that succeeds:
\* after attempt n < MAX_RETRIES the wait of attempt n and then the next
\* probe, after attempt MAX_RETRIES the write of the status; and
\* restart_errors holds exactly the messages of the failed restarts, one
\* each, in attempt order, and nothing for a restart that succeeded.
C14_FailedRestartKeepsFlow ==
    \A p \in Procs :
        LET ev == events[p] IN
        /\ \A k \in At(ev, "restart") :
              LET n == ProbesBefore(ev, k) IN
              /\ (n < MAX_RETRIES /\ k < Len(ev)) =>
                    ev[k + 1] = Event("wait", BASE_WAIT_SECONDS
                                              + (n - 1) * WAIT_INCREMENT_SECONDS)
              /\ (n < MAX_RETRIES /\ k + 1 < Len(ev)) => ev[k + 2].e = "probe"
              /\ (n = MAX_RETRIES /\ k < Len(ev)) => ev[k + 1].e = "write_status"
              /\ pc[p] = "exited" => k < Len(ev)
        /\ restart_errors[p] = FailedMsgs(attempts[p])
        /\ Len(restart_errors[p]) = Cardinality({k \in At(ev, "restart") : ev[k].v = 0})
        /\ (~skip[p] /\ Wrote(p, "write_status")) =>
              read_json(STATUS_FILE).restart_errors = restart_errors[p]

\* the first restart failed with a non-zero exit, the second succeeded, the
\* third could not be run; the run went on to its fourth probe
C14_Witness ==
    \E p \in Procs :
        /\ Count(p, "probe") = 4
        /\ restart_errors[p] = <<restart_service("failed").msg,
                                 restart_service("exception").msg>>
        /\ attempts[p][2].restart_ok
        /\ ~attempts[p][1].restart_ok

\* ------------------------------------------------ damaged throttle file
\* a file whose mode refuses the read: open() raises PermissionError
Unreadable == [by |-> -1, data |-> EmptyDict, part |-> -1]
\* throttle files that json.load cannot parse: an empty or cut-off
\* serialisation (of a state that would throttle), or no access at all
DamagedThrottle ==
    {SubSeq(Serialize(0, [last_failed |-> TRUE, counter |-> 0]), 1, k) :
        k \in 0..(NChunks - 1)}
    \cup {<<Unreadable>>}
DamagedFiles(content) ==
    /\ dir = [x \in Paths |-> IF x = STATUS_FILE THEN 1
                              ELSE IF x = THROTTLE_FILE THEN 2 ELSE NoInode]
    /\ inode = [n \in Inodes |->
                  IF n = 1 THEN Serialize(0, PriorStatus([last_failed |-> TRUE,
                                                          counter |-> 0]))
                  ELSE IF n = 2 THEN content
                  ELSE <<>>]
InitDamaged ==
    /\ LocalsInit
    /\ \/ FreshFiles
       \/ \E ts \in WrittenThrottle : LeftFiles(ts)
       \/ \E content \in DamagedThrottle : DamagedFiles(content)
\* one invocation, started on any throttle file, whole or not
SpecDamaged == InitDamaged /\ [][Next]_vars

\* what the gate makes of last_failed = false, counter = 0
AsIfClean == should_throttle([last_failed |-> FALSE, counter |-> 0])

RestartFields == {"restart_called", "restart_ok", "restart_msg"}

\* C16: once a run that passed the gate has written its status, the status
\* file holds one attempt record per probe made, numbered 1..k in order with
\* 1 <= k <= MAX_RETRIES and carrying the probe's result; succeeded is true
\* iff the last record's status is 200 (and else k = MAX_RETRIES); no earlier
\* record has 200; and the three restart fields are on exactly the records
\* whose status is not 200.
C16_OutcomeMatchesProbes ==
    \A p \in Procs :
        (~skip[p] /\ Wrote(p, "write_status")) =>
           LET out == read_json(STATUS_FILE)
               att == out.attempts
               k == Len(att)
               probes == [j \in 1..Count(p, "probe") |->
                            events[p][CHOOSE m \in At(events[p], "probe") :
                                         ProbesBefore(events[p], m) = j - 1].v] IN
           /\ ~out.skipped_due_to_throttle
           /\ k = Count(p, "probe")
           /\ k \in 1..MAX_RETRIES
           /\ \A j \in 1..k :
                 /\ att[j].try = j
                 /\ att[j].http_status = probes[j]
                 /\ j < k => att[j].http_status # HTTP_OK
                 /\ IF att[j].http_status = HTTP_OK
                    THEN DOMAIN att[j] \cap RestartFields = {}
                    ELSE RestartFields \subseteq DOMAIN att[j] /\ att[j].restart_called
           /\ out.succeeded <=> att[k].http_status = HTTP_OK
           /\ ~out.succeeded => k = MAX_RETRIES

\* a run that failed twice, restarted twice and got 200 on its third probe
\* has persisted its three records
C16_Witness ==
    \E p \in Procs :
        /\ ~skip[p] /\ Wrote(p, "write_status")
        /\ Len(read_json(STATUS_FILE).attempts) = 3
        /\ read_json(STATUS_FILE).succeeded

\* ------------------------------------------------- the documented waits
\* the waits of p, in order
Waits(p) ==
    LET ev == events[p]
        n == Count(p, "wait")
        at(j) == CHOOSE k \in At(ev, "wait") :
                    Cardinality({m \in At(ev, "wait") : m < k}) = j - 1 IN
    [j \in 1..n |-> ev[at(j)].v]

Preceded(p, a, b) ==
    \A k \in At(events[p], a) : \E m \in At(events[p], b) : m < k

\* C18 (as claimed): in every invocation, skipped by the throttle or not,
\* the status file is replaced before the throttle file is.
C18_StatusBeforeThrottle ==
    \A p \in Procs : Preceded(p, "write_throttle", "write_status")

\* C18 (amended): an invocation that passed the gate replaces the status
\* file first and the throttle file second; an invocation that the gate
\* skipped replaces the throttle file first and the status file second.
C18_WriteOrderByPath ==
    \A p \in Procs :
        /\ ~skip[p] => Preceded(p, "write_throttle", "write_status")
        /\ skip[p] => Preceded(p, "write_status", "write_throttle")
        /\ (pc[p] = "exited" /\ ~LockedOut(p) /\ ~Faulted(p)) =>
              LET n == Len(events[p]) IN
              IF skip[p]
              THEN events[p][n - 1].e = "write_throttle" /\ events[p][n].e = "write_status"
              ELSE events[p][n - 1].e = "write_status" /\ events[p][n].e = "write_throttle"

\* a skipped invocation has replaced the throttle file and is about to
\* write its status
C18_Witness ==
    \E p \in Procs :
        /\ skip[p]
        /\ pc[p] = "skip_status"
        /\ Wrote(p, "write_throttle")
        /\ ~Wrote(p, "write_status")

\* ----------------------------------------------------------- recovery
\* the endpoint has come back: every probe returns 200, so no restart and no
\* sleep is ever reached; invocations follow one another, each taking the
\* lock, from any throttle state a failure streak can have left
RecoveredProbeResults == {HTTP_OK}
InitRecover ==
    /\ LocalsInit
    /\ \E ts \in WrittenThrottle :
          /\ ts.last_failed
          /\ ts.counter < MaxInitCounter
          /\ LeftFiles(ts)
NextRecover ==
    \/ Launch(1)
    \/ Relaunch(1)
    \/ LockAcquire(1)
    \/ ShouldThrottle(1)
    \/ \E code \in RecoveredProbeResults : Probe(1, code)
    \/ WriteStatus(1)
    \/ UpdateThrottleState(1)
    \/ WriteChunk(1)
    \/ Replace(1)
    \/ SkipReturn(1)
    \/ Finish(1)
SpecRecover == InitRecover /\ [][NextRecover]_vars

Recovered == ~LastFailed(Persisted)
C19_StateOk ==
    /\ Len(window) < RUN_EVERY_N_AFTER_FAILURE
    /\ \A k \in 1..Len(window) : window[k] = "skip"
    /\ \A p \in Procs :
          /\ (pc[p] = "exited" /\ ~skip[p]) =>
                /\ exit_status[p] = 0
                /\ Count(p, "probe") = 1
                /\ Persisted = [last_failed |-> FALSE, counter |-> 0]
                /\ window = <<>>
          /\ Recovered => ~skip[p]
C19_StepOk == Recovered => Recovered'

\* C19: once every probe returns 200, sequential invocations started on a
\* persisted last_failed = true are skipped at most
\* RUN_EVERY_N_AFTER_FAILURE - 1 times in a row, so that the tenth at the
\* latest passes the gate; the one that passes probes once, exits 0 and
\* persists last_failed = false, counter = 0; from then on last_failed stays
\* false and no invocation is skipped.
C19_BoundedRecovery == [](C19_StateOk) /\ [][C19_StepOk]_vars

\* nine invocations were skipped, the tenth recovered, and the one after it
\* read last_failed = false, probed and returned
C19_Witness ==
    \E p \in Procs :
        /\ pc[p] = "exited"
        /\ exit_status[p] = 0
        /\ read_state[p] = [last_failed |-> FALSE, counter |-> 0]
        /\ Count(p, "probe") = 1

\* ------------------------------------------------- the locked-out run
\* p took a step
Moved(p) == pc'[p] # pc[p] \/ wr'[p] # wr[p]
C20_StateOk ==
    \A p \in Procs :
        LockedOut(p) =>
           /\ pc[p] = "exited"
           /\ Count(p, "read_throttle") = 0
           /\ Count(p, "write_throttle") = 0
           /\ Count(p, "write_status") = 0
           /\ read_state[p] = EmptyDict
           /\ throttle_state[p] = EmptyDict
           /\ wr[p] = NoFrame
C20_StepOk ==
    /\ \A p \in Procs :
          (pc[p] = "lock" /\ pc'[p] = "exited") =>
             /\ LockedOut(p)'
             /\ dir' = dir /\ inode' = inode
             /\ window' = window
    /\ (dir' # dir \/ inode' # inode \/ window' # window) =>
          \E p \in Procs : Moved(p) /\ ~LockedOut(p)'

\* C20: an invocation that is locked out never reads the throttle file,
\* holds no throttle state and opens no file for writing; the step in which
\* it finds the lock taken and exits leaves the status file, the throttle
\* file and the 1-in-N window as they are; and every step that changes one
\* of them is a step of an invocation that was not locked out.
C20_LockedOutTouchesNothing == [](C20_StateOk) /\ [][C20_StepOk]_vars

\* one invocation was locked out and has exited while the holder of the
\* lock, skipped by the throttle, has persisted its incremented counter
C20_Witness ==
    \E p, q \in Procs :
        /\ LockedOut(q) /\ pc[q] = "exited"
        /\ skip[p] /\ Wrote(p, "write_throttle")
        /\ Counter(Persisted) = Counter(read_state[p]) + 1

=============================================================================
